---- MODULE Spec2Model ----
(***************************************************************************)
(* terminal_focus.py: the session store, the HTTP ingestion endpoint       *)
(* (EventHandler.do_POST) running on the server thread, and the menu bar   *)
(* app (TerminalFocusApp) running on the main thread.                      *)
(*                                                                         *)
(* Strings are sequences of characters; a character is a one-element       *)
(* token such as "7", "a", " " or "sup2" (U+00B2 SUPERSCRIPT TWO).         *)
(***************************************************************************)
EXTENDS Integers, Sequences, FiniteSets, TLC

\* ------------------------------------------------------------------------
\* Bounds of the model
\* ------------------------------------------------------------------------
\* A request is accepted only while fewer than MaxNotify notifications are
\* waiting for the consumer (this caps the bookkeeping counters).
MaxNotify == 2

\* Where the schedule_refresh calls are counted from the start, a request is
\* accepted only while fewer than MaxTally calls have been made.
MaxTally == 3

\* ------------------------------------------------------------------------
\* Python string operations used by do_POST
\* ------------------------------------------------------------------------
AsciiDigits == {"0", "1", "2", "3", "4", "5", "6", "7", "8", "9"}

\* Characters outside 0-9 for which str.isdigit() is true (Unicode category
\* No/Nd with a digit value), e.g. U+00B2 SUPERSCRIPT TWO.
UnicodeDigits == {"sup2"}

Whitespace == {" ", "\t", "\n"}

\* str.isdigit() on one character.
IsDigitChar(c) == c \in AsciiDigits \cup UnicodeDigits

\* str.isdigit(): non-empty and every character is a digit character.
isdigit(s) == Len(s) > 0 /\ \A i \in 1..Len(s) : IsDigitChar(s[i])

RECURSIVE lstrip(_)
lstrip(s) == IF s # <<>> /\ Head(s) \in Whitespace THEN lstrip(Tail(s)) ELSE s

RECURSIVE rstrip(_)
rstrip(s) ==
    IF s # <<>> /\ s[Len(s)] \in Whitespace
        THEN rstrip(SubSeq(s, 1, Len(s) - 1))
        ELSE s

\* str.strip(): removes leading and trailing whitespace.
strip(s) == rstrip(lstrip(s))

\* str.lower() on one character (the letters the model uses).
LowerChar(c) ==
    CASE c = "T" -> "t"
      [] c = "E" -> "e"
      [] c = "R" -> "r"
      [] c = "M" -> "m"
      [] c = "I" -> "i"
      [] c = "N" -> "n"
      [] c = "A" -> "a"
      [] OTHER -> c

\* str.lower().
lower(s) == [i \in 1..Len(s) |-> LowerChar(s[i])]

TERMINATE == <<"t", "e", "r", "m", "i", "n", "a", "t", "e">>

DigitChar(d) ==
    CASE d = 0 -> "0" [] d = 1 -> "1" [] d = 2 -> "2" [] d = 3 -> "3"
      [] d = 4 -> "4" [] d = 5 -> "5" [] d = 6 -> "6" [] d = 7 -> "7"
      [] d = 8 -> "8" [] d = 9 -> "9"

RECURSIVE NatToStr(_)
NatToStr(n) ==
    IF n < 10 THEN <<DigitChar(n)>>
    ELSE NatToStr(n \div 10) \o <<DigitChar(n % 10)>>

\* str() of a Python int.
IntToStr(n) == IF n < 0 THEN <<"-">> \o NatToStr(0 - n) ELSE NatToStr(n)

\* ------------------------------------------------------------------------
\* JSON values and request bodies
\* ------------------------------------------------------------------------
JStr(s)  == [t |-> "str", s |-> s, n |-> 0]
JInt(n)  == [t |-> "int", s |-> <<>>, n |-> n]
JNull    == [t |-> "null", s |-> <<>>, n |-> 0]
JAbsent  == [t |-> "absent", s |-> <<>>, n |-> 0]

\* data.get(key, ""): the default "" when the key is absent.
get(v) == IF v.t = "absent" THEN JStr(<<>>) ELSE v

\* str(value) for the JSON values a field may hold.
str(v) ==
    CASE v.t = "str" -> v.s
      [] v.t = "int" -> IntToStr(v.n)
      [] v.t = "null" -> <<"N", "o", "n", "e">>

\* A request body.  kind:
\*   "text"    bytes that are no JSON document        (json.JSONDecodeError)
\*   "empty"   no bytes at all                        (json.JSONDecodeError)
\*   "badutf8" bytes that are not valid UTF-8         (UnicodeDecodeError)
\*   "array"   a well-formed JSON array               (no .get: AttributeError)
\*   "scalar"  a well-formed JSON string/number/null  (no .get: AttributeError)
\*   "object"  a JSON object with the three fields (each possibly absent)
Body(kind, w, t, m) ==
    [kind |-> kind, window_id |-> w, event_title |-> t, event_msg |-> m]

NonObject(kind) == Body(kind, JAbsent, JAbsent, JAbsent)

\* ------------------------------------------------------------------------
\* SessionStore: every method body runs under self._lock, so each is one
\* atomic step on the map  window_id -> [event_title, event_msg, unseen].
\* ------------------------------------------------------------------------
Session(title, msg, flag) ==
    [event_title |-> title, event_msg |-> msg, unseen |-> flag]

EmptyStore == [k \in {} |-> Session(<<>>, <<>>, TRUE)]

\* upsert that marks every stored session unseen.
upsert_unseen_all(S, window_id, event_title, event_msg) ==
    [k \in DOMAIN S \cup {window_id} |->
        IF k = window_id
            THEN Session(event_title, event_msg, TRUE)
            ELSE Session(S[k].event_title, S[k].event_msg, TRUE)]

\* upsert that replaces the whole map by the one entry.
upsert_alone(S, window_id, event_title, event_msg) ==
    [k \in {window_id} |-> Session(event_title, event_msg, TRUE)]

\* upsert that leaves the contents of a session already stored.
upsert_if_absent(S, window_id, event_title, event_msg) ==
    [k \in DOMAIN S \cup {window_id} |->
        IF k = window_id
            THEN IF k \in DOMAIN S
                    THEN Session(S[k].event_title, S[k].event_msg, TRUE)
                    ELSE Session(event_title, event_msg, TRUE)
            ELSE S[k]]

\* upsert that keeps the flag of a session already stored.
upsert_keep_flag(S, window_id, event_title, event_msg) ==
    [k \in DOMAIN S \cup {window_id} |->
        IF k = window_id
            THEN Session(event_title, event_msg,
                         IF k \in DOMAIN S THEN S[k].unseen ELSE TRUE)
            ELSE S[k]]

upsert(S, window_id, event_title, event_msg) ==
    [k \in DOMAIN S \cup {window_id} |->
        IF k = window_id THEN Session(event_title, event_msg, TRUE) ELSE S[k]]

\* remove that empties the map when the key is absent.
remove_clearing(S, window_id) ==
    IF window_id \in DOMAIN S
        THEN [k \in DOMAIN S \ {window_id} |-> S[k]]
        ELSE [k \in {} |-> S[k]]

remove(S, window_id) == [k \in DOMAIN S \ {window_id} |-> S[k]]

\* mark_all_seen whose loop stops after the first session.
mark_all_seen_first(S) ==
    IF DOMAIN S = {} THEN S
    ELSE LET first == CHOOSE k \in DOMAIN S : TRUE
         IN  [k \in DOMAIN S |->
                IF k = first THEN [S[k] EXCEPT !.unseen = FALSE] ELSE S[k]]

mark_all_seen(S) == [k \in DOMAIN S |-> [S[k] EXCEPT !.unseen = FALSE]]

get_all(S) ==
    [k \in DOMAIN S |->
        Session(S[k].event_title, S[k].event_msg, S[k].unseen)]

has_unseen(S) == \E k \in DOMAIN S : S[k].unseen

count(S) == Cardinality(DOMAIN S)

\* ------------------------------------------------------------------------
\* EventHandler.do_POST: parsing, validation and dispatch
\* ------------------------------------------------------------------------
\* What the handler decides before its first _respond call: the response it
\* is about to write, the store call it makes, and whether that _respond call
\* sits in the try block ("try") or in an except clause ("except").
Plan(code, error, status, wid, op, title, msg, site) ==
    [code |-> code, error |-> error, status |-> status, window_id |-> wid,
     op |-> op, event_title |-> title, event_msg |-> msg, site |-> site]

Reject(code, error, site) ==
    Plan(code, error, "", <<>>, "none", <<>>, <<>>, site)

\* Validation that makes the store call before it checks the digits.
Validate_StoreFirst(data) ==
    LET window_id   == strip(str(get(data.window_id)))
        event_title == strip(str(get(data.event_title)))
        event_msg   == strip(str(get(data.event_msg)))
    IN  IF window_id = <<>> \/ event_title = <<>>
            THEN Reject(400, "window_id and event_title are required", "try")
        ELSE IF ~isdigit(window_id)
            THEN Plan(400, "window_id must be a numeric value", "", <<>>,
                      "upsert", event_title, event_msg, "try")
        ELSE IF lower(event_title) = TERMINATE
            THEN Plan(200, "", "removed", window_id,
                      "remove", event_title, event_msg, "try")
        ELSE Plan(200, "", "registered", window_id,
                  "upsert", event_title, event_msg, "try")

\* Validation that checks the digits before the required fields.
Validate_DigitsFirst(data) ==
    LET window_id   == strip(str(get(data.window_id)))
        event_title == strip(str(get(data.event_title)))
        event_msg   == strip(str(get(data.event_msg)))
    IN  IF ~isdigit(window_id)
            THEN Reject(400, "window_id must be a numeric value", "try")
        ELSE IF window_id = <<>> \/ event_title = <<>>
            THEN Reject(400, "window_id and event_title are required", "try")
        ELSE IF lower(event_title) = TERMINATE
            THEN Plan(200, "", "removed", window_id,
                      "remove", event_title, event_msg, "try")
        ELSE Plan(200, "", "registered", window_id,
                  "upsert", event_title, event_msg, "try")

\* Validation that compares the title with "terminate" case-sensitively.
Validate_CaseSensitive(data) ==
    LET window_id   == strip(str(get(data.window_id)))
        event_title == strip(str(get(data.event_title)))
        event_msg   == strip(str(get(data.event_msg)))
    IN  IF window_id = <<>> \/ event_title = <<>>
            THEN Reject(400, "window_id and event_title are required", "try")
        ELSE IF ~isdigit(window_id)
            THEN Reject(400, "window_id must be a numeric value", "try")
        ELSE IF event_title = TERMINATE
            THEN Plan(200, "", "removed", window_id,
                      "remove", event_title, event_msg, "try")
        ELSE Plan(200, "", "registered", window_id,
                  "upsert", event_title, event_msg, "try")

\* Lines 93-111, for a body that json.loads turned into a dict.
Validate(data) ==
    LET window_id   == strip(str(get(data.window_id)))
        event_title == strip(str(get(data.event_title)))
        event_msg   == strip(str(get(data.event_msg)))
    IN  IF window_id = <<>> \/ event_title = <<>>
            THEN Reject(400, "window_id and event_title are required", "try")
        ELSE IF ~isdigit(window_id)
            THEN Reject(400, "window_id must be a numeric value", "try")
        ELSE IF lower(event_title) = TERMINATE
            THEN Plan(200, "", "removed", window_id,
                      "remove", event_title, event_msg, "try")
        ELSE Plan(200, "", "registered", window_id,
                  "upsert", event_title, event_msg, "try")

\* Lines 88-120: json.loads raises JSONDecodeError on text that is no JSON
\* document (400 "Invalid JSON"); any other exception of the try block is
\* answered 500 with str(e).
Dispatch(body) ==
    CASE body.kind \in {"text", "empty"} -> Reject(400, "Invalid JSON", "except")
      [] body.kind = "badutf8" -> Reject(500, "UnicodeDecodeError", "except")
      [] body.kind \in {"array", "scalar"} ->
            Reject(500, "AttributeError", "except")
      [] body.kind = "object" -> Validate(body)

\* The store after the call the plan makes (lines 107 and 110).
StoreCall(S, p) ==
    CASE p.op = "upsert" -> upsert(S, p.window_id, p.event_title, p.event_msg)
      [] p.op = "remove" -> remove(S, p.window_id)
      [] p.op = "none" -> S

\* One _respond call: what was passed and whether the write reached the client.
Response(p, sent) ==
    [code |-> p.code, error |-> p.error, status |-> p.status,
     window_id |-> p.window_id, sent |-> sent]

Fault500 ==
    [code |-> 500, error |-> "BrokenPipeError", status |-> "",
     window_id |-> <<>>, sent |-> FALSE]

\* ------------------------------------------------------------------------
\* Request bodies fed to the endpoint
\* ------------------------------------------------------------------------
BUILD == <<"b", "u", "i", "l", "d">>
DONE == <<"d", "o", "n", "e">>
OK == <<"o", "k">>

WinVals ==
    {JAbsent, JNull, JStr(<<" ">>), JStr(<<"7", "a">>), JStr(<<"sup2">>),
     JStr(<<" ", "1", "2", " ">>), JInt(12)}

TitleVals ==
    {JAbsent, JStr(<<" ">>), JStr(<<" ">> \o DONE \o <<" ">>),
     JStr(<<" ", "T", "e", "r", "m", "i", "n", "a", "t", "E", "\t">>)}

MsgVals == {JAbsent, JStr(<<" ">> \o OK \o <<"\n">>)}

NonObjects ==
    {NonObject(k) : k \in {"text", "empty", "badutf8", "array", "scalar"}}

AllBodies ==
    NonObjects \cup
    {Body("object", w, t, m) : w \in WinVals, t \in TitleVals, m \in MsgVals}

\* The bodies of the whole-program specification: one malformed, one with a
\* missing field, one with an invalid identifier, one registering and one
\* terminating session 7.
CoreBodies ==
    {NonObject("text"),
     Body("object", JAbsent, JStr(BUILD), JAbsent),
     Body("object", JStr(<<"7", "a">>), JStr(BUILD), JAbsent),
     Body("object", JStr(<<" ", "7", " ">>), JStr(BUILD), JStr(<<" ">> \o OK)),
     Body("object", JInt(7), JStr(<<"T", "e", "r", "m", "i", "n", "a", "t", "e">>), JAbsent)}

\* Valid bodies that register and terminate two sessions.
SeenBodies ==
    {Body("object", JStr(<<" ", "7", " ">>), JStr(BUILD), JStr(<<" ">> \o OK)),
     Body("object", JInt(12), JStr(DONE), JAbsent),
     Body("object", JInt(7), JStr(TERMINATE), JAbsent)}

\* One body that registers session 7 and one that is rejected.
TallyBodies ==
    {Body("object", JAbsent, JStr(BUILD), JAbsent),
     Body("object", JStr(<<" ", "7", " ">>), JStr(BUILD), JStr(<<" ">> \o OK))}

NoBody == NonObject("none")

\* ------------------------------------------------------------------------
\* Menu rendering (TerminalFocusApp._rebuild_menu)
\* ------------------------------------------------------------------------
ICON_NORMAL == "computer"
ICON_UNSEEN == "bolt"

\* The label of one menu item (lines 213-218).
Label(info) ==
    LET base == IF info.event_msg # <<>>
                    THEN info.event_title \o <<" ", "emdash", " ">> \o info.event_msg
                    ELSE info.event_title
    IN  IF info.unseen THEN <<"bullet", " ">> \o base ELSE base

\* The status bar title (lines 190-194).
Title(flag, n) == <<IF flag THEN ICON_UNSEEN ELSE ICON_NORMAL>> \o IntToStr(n)

EmptyMenu == [k \in {} |-> <<>>]

\* ------------------------------------------------------------------------
\* Threads that call the store directly (tests/test_session_store.py)
\* ------------------------------------------------------------------------
\* Ids each upsert_many thread registers (the test uses 100).
UpsertCount == 2

Threads == {1, 2, 3}

Call(op, wid, title, msg) ==
    [op |-> op, window_id |-> wid, event_title |-> title, event_msg |-> msg]

NoCall == Call("none", <<>>, <<>>, <<>>)

\* The calls each thread makes, over and over in any order: thread 1 and
\* thread 2 write (two upserts of session 7 with different contents, an upsert
\* and the remove of session 12, the remove of session 7, mark_all_seen), thread
\* 3 reads.
RoleCalls ==
    [t \in Threads |->
        CASE t = 1 -> {Call("upsert", <<"7">>, BUILD, OK),
                       Call("upsert", <<"1", "2">>, BUILD, <<>>),
                       Call("remove", <<"7">>, <<>>, <<>>)}
          [] t = 2 -> {Call("upsert", <<"7">>, DONE, <<>>),
                       Call("remove", <<"1", "2">>, <<>>, <<>>),
                       Call("mark_all_seen", <<>>, <<>>, <<>>)}
          [] t = 3 -> {Call("get_all", <<>>, <<>>, <<>>),
                       Call("has_unseen", <<>>, <<>>, <<>>),
                       Call("count", <<>>, <<>>, <<>>)}]

\* test_concurrent_upserts: the i-th call of thread t is
\* store.upsert(str(start_id + i), "event", f"msg-{i}").
EVENT == <<"e", "v", "e", "n", "t">>
StartId(t) == 1000 * (t - 1)
ManyCall(t, i) ==
    Call("upsert", IntToStr(StartId(t) + i), EVENT,
         <<"m", "s", "g", "-">> \o IntToStr(i))

\* The methods whose body iterates over self._sessions.
Loops == {"mark_all_seen", "get_all", "has_unseen"}

\* What a call returns: get_all its snapshot (alias: the keys whose entry is
\* the store's own dict instead of a copy; touched: the caller has written to
\* it since), has_unseen its flag, count its number.
NoResult ==
    [snap |-> EmptyStore, alias |-> {}, touched |-> FALSE, flag |-> FALSE, n |-> 0]

\* dict(v) on line 65: a new dict with the fields of v.
dict(v) == Session(v.event_title, v.event_msg, v.unseen)

\* d[k] = v on a dict held as a function.
Put(d, k, v) == [x \in DOMAIN d \cup {k} |-> IF x = k THEN v ELSE d[x]]

\* The last completed upsert of each id no remove has followed: the contents
\* it passed and whether a mark_all_seen() was completed since.
Write(title, msg, marked) ==
    [event_title |-> title, event_msg |-> msg, marked |-> marked]

NoWrites == [k \in {} |-> Write(<<>>, <<>>, FALSE)]

MODIFIED == <<"M", "O", "D", "I", "F", "I", "E", "D">>

\* ------------------------------------------------------------------------
\* State
\* ------------------------------------------------------------------------
VARIABLES
    sessions,     \* SessionStore._sessions
    dirty,        \* TerminalFocusApp._dirty (threading.Event)
    app_ref,      \* EventHandler.app_ref is set (main) or None (the tests)
    hpc,          \* server thread: "idle", "notify", "done"; with its store call
                  \* made through the lock also "store" and "respond"
    hreq,         \* the body of the request being handled (or last handled)
    hplan,        \* what do_POST decided for it
    hlog,         \* the _respond calls made for it, in order
    hnotified,    \* schedule_refresh calls made for it
    mpc,          \* main thread: "idle", "clear", "focus", "mark", "get_all", "render";
                  \* with its store calls made through the lock also "marking",
                  \* "reading" and "checking"
    morigin,      \* what started the main thread's current work
    mwid,         \* window id the click handler was made for
    activation,   \* how the handler's focus_terminal_window call ended (until its rebuild)
    snap,         \* _rebuild_menu's local `sessions`
    title,        \* self.title
    menu,         \* session items of self.menu: window id -> label
    refresh_lock, \* TerminalFocusApp._refresh_lock: "none" when free, else the
                  \* origin of the rebuild that holds it
    pending,      \* a notification no get_all() has followed yet
    nClear,       \* schedule_refresh calls since the last _dirty.clear()
    nCheck,       \* a schedule_refresh call followed the last _dirty.is_set()
    tally,        \* when kept: schedule_refresh calls made so far and rebuilds
                  \* started by ticks so far
    tickK,        \* nClear as the current tick's is_set() found it
    tickNoted,    \* nCheck as the current tick's is_set() found it
    tickRebuilds, \* rebuilds the current tick has started
    sinceMark,    \* "never" marked seen, or "none"/"some" upsert since
    fresh,        \* ids upserted since the last mark_all_seen and not removed
    lock,         \* SessionStore._lock: 0 when free, else the thread holding it
    tpc,          \* caller thread -> "idle", "acquire", "body", "release", "ret", "error"
    tcall,        \* caller thread -> the store call it is making (or made last)
    titer,        \* caller thread -> keys its loop over _sessions has yet to visit
    tres,         \* caller thread -> what its call returns
    tpre,         \* caller thread -> _sessions as it was when the thread got the lock
    tprelast,     \* caller thread -> lastw as it was when the thread got the lock
    lastw,        \* window id -> its last completed upsert, if no remove followed
    todo          \* caller thread -> i, the index its upsert_many loop has reached

server == <<hpc, hreq, hplan, hlog, hnotified>>
ui == <<mpc, morigin, mwid, activation, snap, title, menu, refresh_lock>>
ticks == <<tickK, tickNoted, tickRebuilds>>
notes == <<pending, nClear, nCheck, tally>>
marks == <<sinceMark, fresh>>
callers == <<lock, tpc, tcall, titer, tres, tpre, tprelast, lastw, todo>>
program == <<dirty, app_ref, server, ui, ticks, notes, marks>>
vars == <<sessions, program, callers>>

NoPlan == Reject(0, "", "none")
NoTally == [on |-> FALSE, notified |-> 0, rebuilt |-> 0]

InitCommon ==
    /\ sessions = EmptyStore
    /\ dirty = FALSE
    /\ hpc = "idle" /\ hreq = NoBody /\ hplan = NoPlan
    /\ hlog = <<>> /\ hnotified = 0
    /\ mpc = "idle" /\ morigin = "none" /\ mwid = <<>> /\ activation = "none"
    /\ snap = EmptyStore /\ title = <<"0">> /\ menu = EmptyMenu
    /\ refresh_lock = "none"
    /\ pending = FALSE /\ nClear = 0 /\ nCheck = FALSE
    /\ tickK = 0 /\ tickNoted = FALSE /\ tickRebuilds = 0
    /\ sinceMark = "never" /\ fresh = {}
    /\ lock = 0
    /\ tpc = [t \in Threads |-> "idle"]
    /\ tcall = [t \in Threads |-> NoCall]
    /\ titer = [t \in Threads |-> {}]
    /\ tres = [t \in Threads |-> NoResult]
    /\ tpre = [t \in Threads |-> EmptyStore]
    /\ tprelast = [t \in Threads |-> NoWrites]
    /\ lastw = NoWrites
    /\ todo = [t \in Threads |-> 0]

\* main(): the app exists and the handler holds a reference to it.
Init == InitCommon /\ app_ref = TRUE /\ tally = NoTally

\* tests/test_event_handler.py: the endpoint alone, EventHandler.app_ref = None.
InitTest == InitCommon /\ app_ref = FALSE /\ tally = NoTally

\* main() again, with every schedule_refresh call and every rebuild a tick
\* starts counted from the first.
InitTally ==
    InitCommon /\ app_ref = TRUE /\ tally = [on |-> TRUE, notified |-> 0, rebuilt |-> 0]

\* ------------------------------------------------------------------------
\* Server thread (HTTPServer handles one request at a time)
\* ------------------------------------------------------------------------
\* The _respond calls the plan leads to.  A write fails when the client has
\* gone: inside the try block the exception reaches `except Exception`, whose
\* own _respond(500) fails the same way; inside an except clause it leaves
\* do_POST.
Responses(p, sent) ==
    IF sent THEN <<Response(p, TRUE)>>
    ELSE IF p.site = "try" THEN <<Response(p, FALSE), Fault500>>
    ELSE <<Response(p, FALSE)>>

\* Lines 88-111 and 117-120: read, parse, validate, make the store call and
\* answer; `broken` says the client's end of the connection is gone.  Only
\* after a 200 written without an exception does control reach line 114.
do_POST(B) ==
    /\ hpc \in {"idle", "done"}
    /\ nClear < MaxNotify
    /\ tally.notified < MaxTally
    /\ \E body \in B, broken \in BOOLEAN :
        LET p == Dispatch(body)
            sent == ~broken
        IN
        /\ hreq' = body
        /\ hplan' = p
        /\ sessions' = StoreCall(sessions, p)
        /\ sinceMark' = IF p.op = "upsert" /\ sinceMark # "never"
                            THEN "some" ELSE sinceMark
        /\ fresh' = CASE p.op = "upsert" -> fresh \cup {p.window_id}
                      [] p.op = "remove" -> fresh \ {p.window_id}
                      [] p.op = "none" -> fresh
        /\ hlog' = Responses(p, sent)
        /\ hpc' = IF sent /\ p.code = 200 THEN "notify" ELSE "done"
    /\ hnotified' = 0
    /\ UNCHANGED <<dirty, app_ref, ui, ticks, notes>>
    /\ UNCHANGED callers

\* Lines 114-115 and schedule_refresh (lines 172-174).
schedule_refresh ==
    /\ hpc = "notify"
    /\ IF app_ref
          THEN /\ dirty' = TRUE
               /\ hnotified' = hnotified + 1
               /\ pending' = TRUE
               /\ nClear' = nClear + 1
               /\ nCheck' = TRUE
               /\ tally' = IF tally.on THEN [tally EXCEPT !.notified = @ + 1]
                                     ELSE tally
          ELSE UNCHANGED <<dirty, hnotified, notes>>
    /\ hpc' = "done"
    /\ UNCHANGED <<sessions, app_ref, hreq, hplan, hlog, ui, ticks, marks>>
    /\ UNCHANGED callers

\* ------------------------------------------------------------------------
\* Main thread (timer, click handlers and menu delegate run one at a time)
\* ------------------------------------------------------------------------
\* A tick that rebuilds without looking at the flag.
poll_for_updates_unconditional ==
    /\ mpc = "idle" /\ app_ref
    /\ morigin' = "tick"
    /\ tickK' = nClear /\ tickNoted' = nCheck /\ tickRebuilds' = 0
    /\ nCheck' = FALSE
    /\ mpc' = "clear"
    /\ UNCHANGED <<sessions, dirty, app_ref, server, mwid, activation, snap,
                   title, menu, refresh_lock, pending, nClear, tally, marks>>
    /\ UNCHANGED callers

\* _poll_for_updates, line 179: the timer fires and reads the flag.
poll_for_updates ==
    /\ mpc = "idle" /\ app_ref
    /\ morigin' = "tick"
    /\ tickK' = nClear /\ tickNoted' = nCheck /\ tickRebuilds' = 0
    /\ nCheck' = FALSE
    /\ mpc' = IF dirty THEN "clear" ELSE "idle"
    /\ UNCHANGED <<sessions, dirty, app_ref, server, mwid, activation, snap,
                   title, menu, refresh_lock, pending, nClear, tally, marks>>
    /\ UNCHANGED callers

\* _poll_for_updates, line 180.
poll_clear ==
    /\ mpc = "clear"
    /\ dirty' = FALSE
    /\ nClear' = 0
    /\ mpc' = "get_all"
    /\ UNCHANGED <<sessions, app_ref, server, morigin, mwid, activation, snap,
                   title, menu, refresh_lock, ticks, pending, nCheck, tally,
                   marks>>
    /\ UNCHANGED callers

\* _rebuild_menu, line 186.
rebuild_get_all ==
    /\ mpc = "get_all"
    /\ refresh_lock = "none"
    /\ refresh_lock' = morigin
    /\ snap' = get_all(sessions)
    /\ pending' = FALSE
    /\ tally' = IF tally.on /\ morigin = "tick"
                 THEN [tally EXCEPT !.rebuilt = @ + 1] ELSE tally
    /\ tickRebuilds' = IF morigin = "tick" THEN tickRebuilds + 1 ELSE tickRebuilds
    /\ mpc' = "render"
    /\ activation' = "none"
    /\ UNCHANGED <<sessions, dirty, app_ref, server, morigin, mwid,
                   title, menu, tickK, tickNoted, nClear, nCheck, marks>>
    /\ UNCHANGED callers

\* A rebuild that clears the flag when it is done instead of before it starts.
rebuild_render_clearing ==
    /\ mpc = "render"
    /\ title' = Title(has_unseen(sessions), count(snap))
    /\ menu' = [wid \in DOMAIN snap |-> Label(snap[wid])]
    /\ snap' = EmptyStore
    /\ morigin' = "none" /\ mwid' = <<>> /\ activation' = "none"
    /\ tickK' = 0 /\ tickNoted' = FALSE /\ tickRebuilds' = 0
    /\ mpc' = "idle"
    /\ refresh_lock' = "none"
    /\ dirty' = FALSE
    /\ nClear' = 0
    /\ UNCHANGED <<sessions, app_ref, server, pending, nCheck, tally, marks>>
    /\ UNCHANGED callers

\* _rebuild_menu, lines 187-226.
rebuild_render ==
    /\ mpc = "render"
    /\ title' = Title(has_unseen(sessions), count(snap))
    /\ menu' = [wid \in DOMAIN snap |-> Label(snap[wid])]
    /\ snap' = EmptyStore
    /\ morigin' = "none" /\ mwid' = <<>> /\ activation' = "none"
    /\ tickK' = 0 /\ tickNoted' = FALSE /\ tickRebuilds' = 0
    /\ mpc' = "idle"
    /\ refresh_lock' = "none"
    /\ UNCHANGED <<sessions, dirty, app_ref, server, notes, marks>>
    /\ UNCHANGED callers

\* The user clicks the item made for wid (line 220): handler() starts.
click_handler ==
    /\ mpc = "idle" /\ app_ref
    /\ \E wid \in DOMAIN menu : mwid' = wid
    /\ morigin' = "click"
    /\ tickK' = 0 /\ tickNoted' = FALSE /\ tickRebuilds' = 0
    /\ mpc' = "focus"
    /\ UNCHANGED <<sessions, dirty, app_ref, server, activation, snap, title,
                   menu, refresh_lock, notes, marks>>
    /\ UNCHANGED callers

ActivationOutcomes == {"ok", "timeout", "error"}

\* focus_terminal_window that lets a failure of subprocess.run reach handler().
focus_terminal_window_raising ==
    /\ mpc = "focus"
    /\ \E outcome \in ActivationOutcomes :
        /\ activation' = outcome
        /\ mpc' = IF outcome = "ok" THEN "mark" ELSE "idle"
    /\ UNCHANGED <<sessions, dirty, app_ref, server, morigin, mwid, snap, title,
                   menu, refresh_lock, ticks, notes, marks>>
    /\ UNCHANGED callers

\* focus_terminal_window(mwid), lines 153-156: subprocess.run ends, runs into
\* its 5 s timeout (TimeoutExpired) or raises; the except clause swallows both
\* failures and the function returns to handler().
focus_terminal_window ==
    /\ mpc = "focus"
    /\ \E outcome \in ActivationOutcomes : activation' = outcome
    /\ mpc' = "mark"
    /\ UNCHANGED <<sessions, dirty, app_ref, server, morigin, mwid, snap, title,
                   menu, refresh_lock, ticks, notes, marks>>
    /\ UNCHANGED callers

\* A menu-open hook that is also delivered while a rebuild is in progress.
menuWillOpen_reentrant ==
    /\ mpc \in {"idle", "render"} /\ app_ref
    /\ morigin' = "open"
    /\ tickK' = 0 /\ tickNoted' = FALSE /\ tickRebuilds' = 0
    /\ mpc' = "mark"
    /\ UNCHANGED <<sessions, dirty, app_ref, server, mwid, activation, snap,
                   title, menu, refresh_lock, notes, marks>>
    /\ UNCHANGED callers

\* A menu-open hook that also resets the flag before it rebuilds.
menuWillOpen_clearing ==
    /\ mpc = "idle" /\ app_ref
    /\ morigin' = "open"
    /\ tickK' = 0 /\ tickNoted' = FALSE /\ tickRebuilds' = 0
    /\ mpc' = "mark"
    /\ dirty' = FALSE
    /\ nClear' = 0
    /\ UNCHANGED <<sessions, app_ref, server, mwid, activation, snap,
                   title, menu, refresh_lock, pending, nCheck, tally, marks>>
    /\ UNCHANGED callers

\* MenuOpenDelegate.menuWillOpen_ (lines 266-269).
menuWillOpen ==
    /\ mpc = "idle" /\ app_ref
    /\ morigin' = "open"
    /\ tickK' = 0 /\ tickNoted' = FALSE /\ tickRebuilds' = 0
    /\ mpc' = "mark"
    /\ UNCHANGED <<sessions, dirty, app_ref, server, mwid, activation, snap,
                   title, menu, refresh_lock, notes, marks>>
    /\ UNCHANGED callers

\* self.store.mark_all_seen() (lines 233 and 268).
store_mark_all_seen ==
    /\ mpc = "mark"
    /\ sessions' = mark_all_seen(sessions)
    /\ sinceMark' = "none"
    /\ fresh' = {}
    /\ mpc' = "get_all"
    /\ UNCHANGED <<dirty, app_ref, server, morigin, mwid, activation, snap,
                   title, menu, refresh_lock, ticks, notes>>
    /\ UNCHANGED callers

\* ------------------------------------------------------------------------
\* SessionStore called from several threads: `with self._lock` and the steps
\* of each method body
\* ------------------------------------------------------------------------
\* A thread starts a call of its role.
worker_call(t) ==
    /\ tpc[t] \in {"idle", "ret"}
    /\ \E c \in RoleCalls[t] : tcall' = [tcall EXCEPT ![t] = c]
    /\ tpc' = [tpc EXCEPT ![t] = "acquire"]
    /\ tres' = [tres EXCEPT ![t] = NoResult]
    /\ UNCHANGED <<sessions, program, lock, titer, tpre, tprelast, lastw, todo>>

\* upsert_many of test_concurrent_upserts: the next iteration of its loop.
upsert_many(t) ==
    /\ tpc[t] \in {"idle", "ret"}
    /\ todo[t] < UpsertCount
    /\ tcall' = [tcall EXCEPT ![t] = ManyCall(t, todo[t])]
    /\ todo' = [todo EXCEPT ![t] = todo[t] + 1]
    /\ tpc' = [tpc EXCEPT ![t] = "acquire"]
    /\ tres' = [tres EXCEPT ![t] = NoResult]
    /\ UNCHANGED <<sessions, program, lock, titer, tpre, tprelast, lastw>>

\* A `with` that enters without waiting for the lock to be free.
acquire_unguarded(t) ==
    /\ tpc[t] = "acquire"
    /\ lock' = t
    /\ tpc' = [tpc EXCEPT ![t] = "body"]
    /\ titer' = [titer EXCEPT ![t] =
                    IF tcall[t].op \in Loops THEN DOMAIN sessions ELSE {}]
    /\ tpre' = [tpre EXCEPT ![t] = sessions]
    /\ tprelast' = [tprelast EXCEPT ![t] = lastw]
    /\ UNCHANGED <<sessions, program, tcall, tres, lastw, todo>>

\* `with self._lock:` (lines 44, 53, 58, 64, 69, 74): the thread waits until
\* the lock is free and takes it; a loop's iterator starts over the keys the
\* dict holds now.
acquire(t) ==
    /\ tpc[t] = "acquire"
    /\ lock = 0
    /\ lock' = t
    /\ tpc' = [tpc EXCEPT ![t] = "body"]
    /\ titer' = [titer EXCEPT ![t] =
                    IF tcall[t].op \in Loops THEN DOMAIN sessions ELSE {}]
    /\ tpre' = [tpre EXCEPT ![t] = sessions]
    /\ tprelast' = [tprelast EXCEPT ![t] = lastw]
    /\ UNCHANGED <<sessions, program, tcall, tres, lastw, todo>>

\* An upsert that, for an id already stored, writes the title into the stored
\* dict and leaves its other fields.
upsert_body_title_only(t) ==
    /\ tpc[t] = "body" /\ tcall[t].op = "upsert"
    /\ LET c == tcall[t] IN
        /\ sessions' =
            IF c.window_id \in DOMAIN sessions
                THEN [sessions EXCEPT ![c.window_id].event_title = c.event_title]
                ELSE upsert(sessions, c.window_id, c.event_title, c.event_msg)
        /\ lastw' = Put(lastw, c.window_id,
                        Write(c.event_title, c.event_msg, FALSE))
    /\ tpc' = [tpc EXCEPT ![t] = "release"]
    /\ UNCHANGED <<program, lock, tcall, titer, tres, tpre, tprelast, todo>>

\* upsert, lines 45-49: one new dict stored under the key.
upsert_body(t) ==
    /\ tpc[t] = "body" /\ tcall[t].op = "upsert"
    /\ LET c == tcall[t] IN
        /\ sessions' = upsert(sessions, c.window_id, c.event_title, c.event_msg)
        /\ lastw' = Put(lastw, c.window_id,
                        Write(c.event_title, c.event_msg, FALSE))
    /\ tpc' = [tpc EXCEPT ![t] = "release"]
    /\ UNCHANGED <<program, lock, tcall, titer, tres, tpre, tprelast, todo>>

\* remove, line 54: pop(window_id, None).
remove_body(t) ==
    /\ tpc[t] = "body" /\ tcall[t].op = "remove"
    /\ sessions' = remove(sessions, tcall[t].window_id)
    /\ lastw' = remove(lastw, tcall[t].window_id)
    /\ tpc' = [tpc EXCEPT ![t] = "release"]
    /\ UNCHANGED <<program, lock, tcall, titer, tres, tpre, tprelast, todo>>

\* The dict has another size than when the thread's iterator was made: the
\* iterator's next step raises RuntimeError.
SizeChanged(t) == Cardinality(DOMAIN sessions) # Cardinality(DOMAIN tpre[t])

\* RuntimeError leaves the `with` block (the lock is released) and the method.
Raise(t) ==
    /\ tpc' = [tpc EXCEPT ![t] = "error"]
    /\ lock' = IF lock = t THEN 0 ELSE lock
    /\ titer' = [titer EXCEPT ![t] = {}]
    /\ UNCHANGED <<sessions, program, tcall, tres, tpre, tprelast, lastw, todo>>

\* mark_all_seen, lines 59-60: one iteration of the loop, or its end.
mark_all_seen_loop(t) ==
    /\ tpc[t] = "body" /\ tcall[t].op = "mark_all_seen"
    /\ IF SizeChanged(t) THEN Raise(t)
       ELSE IF titer[t] = {}
          THEN /\ tpc' = [tpc EXCEPT ![t] = "release"]
               /\ lastw' = [k \in DOMAIN lastw |-> [lastw[k] EXCEPT !.marked = TRUE]]
               /\ UNCHANGED <<sessions, program, lock, tcall, titer, tres,
                              tpre, tprelast, todo>>
          ELSE /\ \E k \in titer[t] :
                    /\ sessions' = IF k \in DOMAIN sessions
                                      THEN [sessions EXCEPT ![k].unseen = FALSE]
                                      ELSE sessions
                    /\ titer' = [titer EXCEPT ![t] = titer[t] \ {k}]
               /\ UNCHANGED <<program, lock, tpc, tcall, tres, tpre, tprelast,
                              lastw, todo>>

\* A get_all that puts the stored dicts themselves into the dict it returns.
get_all_loop_shallow(t) ==
    /\ tpc[t] = "body" /\ tcall[t].op = "get_all"
    /\ IF SizeChanged(t) THEN Raise(t)
       ELSE IF titer[t] = {}
          THEN /\ tpc' = [tpc EXCEPT ![t] = "release"]
               /\ UNCHANGED <<sessions, program, lock, tcall, titer, tres,
                              tpre, tprelast, lastw, todo>>
          ELSE /\ \E k \in titer[t] :
                    /\ tres' = IF k \in DOMAIN sessions
                                  THEN [tres EXCEPT
                                          ![t].snap = Put(tres[t].snap, k, sessions[k]),
                                          ![t].alias = tres[t].alias \cup {k}]
                                  ELSE tres
                    /\ titer' = [titer EXCEPT ![t] = titer[t] \ {k}]
               /\ UNCHANGED <<sessions, program, lock, tpc, tcall, tpre,
                              tprelast, lastw, todo>>

\* get_all, line 65: one iteration of the comprehension {k: dict(v) ...}, or
\* its end.
get_all_loop(t) ==
    /\ tpc[t] = "body" /\ tcall[t].op = "get_all"
    /\ IF SizeChanged(t) THEN Raise(t)
       ELSE IF titer[t] = {}
          THEN /\ tpc' = [tpc EXCEPT ![t] = "release"]
               /\ UNCHANGED <<sessions, program, lock, tcall, titer, tres,
                              tpre, tprelast, lastw, todo>>
          ELSE /\ \E k \in titer[t] :
                    /\ tres' = IF k \in DOMAIN sessions
                                  THEN [tres EXCEPT
                                          ![t].snap = Put(tres[t].snap, k, dict(sessions[k]))]
                                  ELSE tres
                    /\ titer' = [titer EXCEPT ![t] = titer[t] \ {k}]
               /\ UNCHANGED <<sessions, program, lock, tpc, tcall, tpre,
                              tprelast, lastw, todo>>

\* has_unseen, line 70: any() takes the next session and stops at the first
\* unseen one, or the generator ends.
has_unseen_loop(t) ==
    /\ tpc[t] = "body" /\ tcall[t].op = "has_unseen"
    /\ IF SizeChanged(t) THEN Raise(t)
       ELSE IF titer[t] = {}
          THEN /\ tpc' = [tpc EXCEPT ![t] = "release"]
               /\ UNCHANGED <<sessions, program, lock, tcall, titer, tres,
                              tpre, tprelast, lastw, todo>>
          ELSE /\ \E k \in titer[t] :
                    IF k \in DOMAIN sessions /\ sessions[k].unseen
                        THEN /\ tres' = [tres EXCEPT ![t].flag = TRUE]
                             /\ titer' = [titer EXCEPT ![t] = {}]
                             /\ tpc' = [tpc EXCEPT ![t] = "release"]
                        ELSE /\ titer' = [titer EXCEPT ![t] = titer[t] \ {k}]
                             /\ UNCHANGED <<tres, tpc>>
               /\ UNCHANGED <<sessions, program, lock, tcall, tpre,
                              tprelast, lastw, todo>>

\* count, line 75.
count_body(t) ==
    /\ tpc[t] = "body" /\ tcall[t].op = "count"
    /\ tres' = [tres EXCEPT ![t].n = count(sessions)]
    /\ tpc' = [tpc EXCEPT ![t] = "release"]
    /\ UNCHANGED <<sessions, program, lock, tcall, titer, tpre, tprelast,
                   lastw, todo>>

\* The end of the `with` block: the lock is released and the method returns.
\* The caller of get_all keeps the snapshot and the caller of has_unseen the
\* flag ("ret"); the other methods return nothing or their result is dropped.
release(t) ==
    /\ tpc[t] = "release"
    /\ lock' = IF lock = t THEN 0 ELSE lock
    /\ IF tcall[t].op \in {"get_all", "has_unseen"}
          THEN /\ tpc' = [tpc EXCEPT ![t] = "ret"]
               /\ UNCHANGED <<tcall, tres>>
          ELSE /\ tpc' = [tpc EXCEPT ![t] = "idle"]
               /\ tcall' = [tcall EXCEPT ![t] = NoCall]
               /\ tres' = [tres EXCEPT ![t] = NoResult]
    /\ tpre' = [tpre EXCEPT ![t] = EmptyStore]
    /\ tprelast' = [tprelast EXCEPT ![t] = NoWrites]
    /\ UNCHANGED <<sessions, program, titer, lastw, todo>>

\* The snapshot as its holder sees it: an entry that is the store's own dict
\* shows what the store holds now.
View(t) ==
    [k \in DOMAIN tres[t].snap |->
        IF k \in tres[t].alias /\ k \in DOMAIN sessions
            THEN sessions[k] ELSE tres[t].snap[k]]

\* The caller writes to the snapshot it was given, as test_get_all_returns_copy
\* does (snapshot["123"]["event_msg"] = "MODIFIED"), deletes an entry of it or
\* adds one.
snapshot_modify(t) ==
    /\ tpc[t] = "ret" /\ tcall[t].op = "get_all" /\ ~tres[t].touched
    /\ \/ \E k \in DOMAIN tres[t].snap :
            /\ tres' = [tres EXCEPT ![t].snap[k].event_msg = MODIFIED,
                                    ![t].touched = TRUE]
            /\ sessions' = IF k \in tres[t].alias /\ k \in DOMAIN sessions
                              THEN [sessions EXCEPT ![k].event_msg = MODIFIED]
                              ELSE sessions
       \/ \E k \in DOMAIN tres[t].snap :
            /\ tres' = [tres EXCEPT ![t].snap = remove(tres[t].snap, k),
                                    ![t].alias = tres[t].alias \ {k},
                                    ![t].touched = TRUE]
            /\ sessions' = sessions
       \/ /\ tres' = [tres EXCEPT
                        ![t].snap = Put(tres[t].snap, <<"9">>,
                                        Session(MODIFIED, <<>>, TRUE)),
                        ![t].touched = TRUE]
          /\ sessions' = sessions
    /\ UNCHANGED <<program, lock, tpc, tcall, titer, tpre, tprelast, lastw, todo>>

\* ------------------------------------------------------------------------
\* The program's two threads as callers of the store: the same handlers, with
\* every store call made through `with self._lock` (acquire, body, release)
\* and the response, the activation and the menu written in steps of their
\* own.  The bookkeeping of the notifications seen by get_all (pending) and of
\* the marks (sinceMark, fresh) is kept by the one-step actions only.
\* ------------------------------------------------------------------------
SERVER == 1
MAIN == 2

\* do_POST, lines 88-107/110: read, parse and validate; a valid request goes
\* on to its store call, any other straight to its answer.
do_POST_begin(B) ==
    /\ hpc \in {"idle", "done"}
    /\ nClear < MaxNotify
    /\ tally.notified < MaxTally
    /\ \E body \in B :
        LET p == Dispatch(body) IN
        /\ hreq' = body
        /\ hplan' = p
        /\ IF p.op = "none"
              THEN /\ hpc' = "respond"
                   /\ UNCHANGED <<tpc, tcall, tres>>
              ELSE /\ hpc' = "store"
                   /\ tcall' = [tcall EXCEPT ![SERVER] =
                                  Call(p.op, p.window_id, p.event_title, p.event_msg)]
                   /\ tpc' = [tpc EXCEPT ![SERVER] = "acquire"]
                   /\ tres' = [tres EXCEPT ![SERVER] = NoResult]
    /\ hlog' = <<>>
    /\ hnotified' = 0
    /\ UNCHANGED <<sessions, dirty, app_ref, ui, ticks, notes, marks>>
    /\ UNCHANGED <<lock, titer, tpre, tprelast, lastw, todo>>

\* A request whose response is written before the store call has returned.
do_POST_respond_early ==
    /\ \/ hpc = "respond"
       \/ hpc = "store" /\ tpc[SERVER] \in {"idle", "release"}
    /\ \E broken \in BOOLEAN :
        /\ hlog' = Responses(hplan, ~broken)
        /\ hpc' = IF ~broken /\ hplan.code = 200 THEN "notify" ELSE "done"
    /\ UNCHANGED <<sessions, dirty, app_ref, hreq, hplan, hnotified, ui, ticks,
                   notes, marks>>
    /\ UNCHANGED callers

\* do_POST, lines 98, 103, 108, 111 and 117-120: the store call, if any, has
\* returned and _respond writes the answer.
do_POST_respond ==
    /\ \/ hpc = "respond"
       \/ hpc = "store" /\ tpc[SERVER] = "idle"
    /\ \E broken \in BOOLEAN :
        /\ hlog' = Responses(hplan, ~broken)
        /\ hpc' = IF ~broken /\ hplan.code = 200 THEN "notify" ELSE "done"
    /\ UNCHANGED <<sessions, dirty, app_ref, hreq, hplan, hnotified, ui, ticks,
                   notes, marks>>
    /\ UNCHANGED callers

\* Lines 233, 244 and 268: the handler calls self.store.mark_all_seen().
handler_mark_all_seen ==
    /\ mpc = "mark"
    /\ mpc' = "marking"
    /\ tcall' = [tcall EXCEPT ![MAIN] = Call("mark_all_seen", <<>>, <<>>, <<>>)]
    /\ tpc' = [tpc EXCEPT ![MAIN] = "acquire"]
    /\ tres' = [tres EXCEPT ![MAIN] = NoResult]
    /\ UNCHANGED <<sessions, dirty, app_ref, server, morigin, mwid, activation,
                   snap, title, menu, refresh_lock, ticks, notes, marks>>
    /\ UNCHANGED <<lock, titer, tpre, tprelast, lastw, todo>>

\* _rebuild_menu, lines 185-186: `with self._refresh_lock` waits until the
\* lock is free and takes it, then self.store.get_all() is called.
rebuild_menu_enter ==
    /\ \/ mpc = "get_all"
       \/ mpc = "marking" /\ tpc[MAIN] = "idle"
    /\ refresh_lock = "none"
    /\ refresh_lock' = morigin
    /\ tickRebuilds' = IF morigin = "tick" THEN tickRebuilds + 1 ELSE tickRebuilds
    /\ tally' = IF tally.on /\ morigin = "tick"
                 THEN [tally EXCEPT !.rebuilt = @ + 1] ELSE tally
    /\ activation' = "none"
    /\ mpc' = "reading"
    /\ tcall' = [tcall EXCEPT ![MAIN] = Call("get_all", <<>>, <<>>, <<>>)]
    /\ tpc' = [tpc EXCEPT ![MAIN] = "acquire"]
    /\ tres' = [tres EXCEPT ![MAIN] = NoResult]
    /\ UNCHANGED <<sessions, dirty, app_ref, server, morigin, mwid, snap, title,
                   menu, tickK, tickNoted, pending, nClear, nCheck, marks>>
    /\ UNCHANGED <<lock, titer, tpre, tprelast, lastw, todo>>

\* _rebuild_menu, lines 186-188: get_all() has returned the snapshot and
\* self.store.has_unseen() is called.
rebuild_menu_has_unseen ==
    /\ mpc = "reading" /\ tpc[MAIN] = "ret"
    /\ snap' = tres[MAIN].snap
    /\ mpc' = "checking"
    /\ tcall' = [tcall EXCEPT ![MAIN] = Call("has_unseen", <<>>, <<>>, <<>>)]
    /\ tpc' = [tpc EXCEPT ![MAIN] = "acquire"]
    /\ tres' = [tres EXCEPT ![MAIN] = NoResult]
    /\ UNCHANGED <<sessions, dirty, app_ref, server, morigin, mwid, activation,
                   title, menu, refresh_lock, ticks, notes, marks>>
    /\ UNCHANGED <<lock, titer, tpre, tprelast, lastw, todo>>

\* _rebuild_menu, lines 188-226: has_unseen() has returned; the title and the
\* menu are written and the with-block ends.
rebuild_menu_write ==
    /\ mpc = "checking" /\ tpc[MAIN] = "ret"
    /\ title' = Title(tres[MAIN].flag, count(snap))
    /\ menu' = [wid \in DOMAIN snap |-> Label(snap[wid])]
    /\ snap' = EmptyStore
    /\ morigin' = "none" /\ mwid' = <<>> /\ activation' = "none"
    /\ tickK' = 0 /\ tickNoted' = FALSE /\ tickRebuilds' = 0
    /\ mpc' = "idle"
    /\ refresh_lock' = "none"
    /\ tcall' = [tcall EXCEPT ![MAIN] = NoCall]
    /\ tpc' = [tpc EXCEPT ![MAIN] = "idle"]
    /\ tres' = [tres EXCEPT ![MAIN] = NoResult]
    /\ UNCHANGED <<sessions, dirty, app_ref, server, notes, marks>>
    /\ UNCHANGED <<lock, titer, tpre, tprelast, lastw, todo>>

\* ------------------------------------------------------------------------
\* Specifications
\* ------------------------------------------------------------------------
Program(B) ==
    \/ do_POST(B)
    \/ schedule_refresh
    \/ poll_for_updates
    \/ poll_clear
    \/ rebuild_get_all
    \/ rebuild_render
    \/ click_handler
    \/ focus_terminal_window
    \/ menuWillOpen
    \/ store_mark_all_seen

Next == Program(CoreBodies)

\* The whole program as main() starts it.
Spec == Init /\ [][Next]_vars

NextSeen == Program(SeenBodies)

\* The whole program fed valid requests for two sessions.
SpecSeen == Init /\ [][NextSeen]_vars

NextTally == Program(TallyBodies)

\* The whole program with its notifications and tick-started rebuilds counted.
SpecTally == InitTally /\ [][NextTally]_vars

NextIngest ==
    \/ do_POST(AllBodies)
    \/ schedule_refresh

\* The endpoint as tests/test_event_handler.py runs it, over every body.
SpecIngest == InitTest /\ [][NextIngest]_vars

NextStore ==
    \E t \in Threads :
        \/ worker_call(t)
        \/ acquire(t)
        \/ upsert_body(t)
        \/ remove_body(t)
        \/ mark_all_seen_loop(t)
        \/ get_all_loop(t)
        \/ has_unseen_loop(t)
        \/ count_body(t)
        \/ release(t)
        \/ snapshot_modify(t)

\* One body that is rejected, one that registers and one that terminates
\* session 7.
LockBodies ==
    {Body("object", JAbsent, JStr(BUILD), JAbsent),
     Body("object", JStr(<<" ", "7", " ">>), JStr(BUILD), JStr(<<" ">> \o OK)),
     Body("object", JInt(7), JStr(TERMINATE), JAbsent)}

NextLock ==
    \/ do_POST_begin(LockBodies)
    \/ do_POST_respond
    \/ schedule_refresh
    \/ poll_for_updates
    \/ poll_clear
    \/ click_handler
    \/ focus_terminal_window
    \/ menuWillOpen
    \/ handler_mark_all_seen
    \/ rebuild_menu_enter
    \/ rebuild_menu_has_unseen
    \/ rebuild_menu_write
    \/ \E t \in {SERVER, MAIN} :
        \/ acquire(t)
        \/ upsert_body(t)
        \/ remove_body(t)
        \/ mark_all_seen_loop(t)
        \/ get_all_loop(t)
        \/ has_unseen_loop(t)
        \/ release(t)

\* The whole program with the server thread and the main thread making their
\* store calls through the store's lock.
SpecLock == Init /\ [][NextLock]_vars

\* The store alone, called by two writing threads and one reading thread.
SpecStore == InitTest /\ [][NextStore]_vars

NextUpserts ==
    \E t \in Threads :
        \/ upsert_many(t)
        \/ acquire(t)
        \/ upsert_body(t)
        \/ release(t)

\* test_concurrent_upserts: three threads, each upserting its own ids.
SpecUpserts == InitTest /\ [][NextUpserts]_vars

\* ------------------------------------------------------------------------
\* Vocabulary of the properties
\* ------------------------------------------------------------------------
MISSING_FIELD == "window_id and event_title are required"
INVALID_IDENTIFIER == "window_id must be a numeric value"

\* Only the decimal digits 0-9.
DecimalOnly(s) == \A i \in 1..Len(s) : s[i] \in AsciiDigits

\* A request has been handled up to its answer.
Answered == hpc \in {"notify", "done"}

\* The request's fields as the spec describes them: converted to text and
\* trimmed of surrounding whitespace.
ReqId == strip(str(get(hreq.window_id)))
ReqTitle == strip(str(get(hreq.event_title)))
ReqMsg == strip(str(get(hreq.event_msg)))

\* The request's body parsed as a structured record.
Parsed == hreq.kind = "object"

\* The request passed validation as the code applies it.
Validated == Parsed /\ ReqId # <<>> /\ ReqTitle # <<>> /\ isdigit(ReqId)

\* The first _respond call made for the request.
Answer == hlog[1]

\* C1: a request whose trimmed window_id holds a character outside 0-9 is
\* answered 400 and makes no store call, so every key of the store and every
\* id handed to focus_terminal_window consists of decimal digits only.
C1_DigitOnlyGate ==
    /\ (Answered /\ Parsed /\ ~DecimalOnly(ReqId)) =>
            (Answer.code = 400 /\ hplan.op = "none")
    /\ \A k \in DOMAIN sessions : DecimalOnly(k)
    /\ \A k \in DOMAIN menu : DecimalOnly(k)
    /\ DecimalOnly(mwid)

\* C2: a request that made a store call has notified the Refresh Coordinator
\* exactly once by the time it ends.
C2_NotifiedOnceAfterMutation ==
    (hpc = "done" /\ hplan.op # "none") => hnotified = 1

\* C5: a body that does not parse as a structured record is answered 400 and
\* never 500.
C5_MalformedIs400 ==
    (Answered /\ ~Parsed) => \A i \in 1..Len(hlog) : hlog[i].code = 400

\* ------------------------------------------------------------------------
\* The refresh protocol
\* ------------------------------------------------------------------------
\* What the main thread does once started, up to its return to the run loop.
MainWork ==
    \/ poll_clear
    \/ rebuild_get_all
    \/ rebuild_render
    \/ focus_terminal_window
    \/ store_mark_all_seen

\* The whole program with a main thread that finishes what it starts, a
\* timer (rumps.timer(0.5)) that keeps firing and a server thread that goes
\* on from its response to line 114.
LiveSpec ==
    Spec /\ WF_vars(MainWork) /\ SF_vars(poll_for_updates)
         /\ WF_vars(schedule_refresh)

\* C3: after every schedule_refresh() a rebuild takes its get_all() snapshot
\* later than that call, also for a call that lands between the tick's
\* is_set() and its clear().
C3_NotificationNotLost == pending ~> ~pending

\* A notification has landed between a tick's is_set() and its clear().
C3_Witness == mpc = "clear" /\ nCheck /\ pending

\* The rule a tick follows given whether there are notifications it is held
\* to answer: if so it makes one rebuild, if not none, and never more than one.
TickRule(notified) ==
    morigin = "tick" =>
        /\ notified => mpc # "idle"
        /\ ~notified => mpc = "idle"
        /\ tickRebuilds = IF mpc = "render" THEN 1 ELSE 0

\* C4 as stated: k >= 1 notifications made since the previous check lead to
\* exactly one rebuild at this check.
C4_Original == TickRule(tickNoted)

\* C4: the k >= 1 notifications made since the consumer last cleared the flag
\* (or since start-up) lead to exactly one rebuild at the next check, none
\* leads to none, and no tick rebuilds twice.
C4_CoalescedRebuild == TickRule(tickK >= 1)

\* Two notifications answered by the one rebuild of a tick.
C4_Witness ==
    mpc = "render" /\ morigin = "tick" /\ tickK = 2 /\ tickRebuilds = 1

\* ------------------------------------------------------------------------
\* Validation and dispatch
\* ------------------------------------------------------------------------
\* The server thread takes a request through do_POST in this step (the main
\* thread's state stays as it is).
PostStep ==
    /\ hpc \in {"idle", "done"}
    /\ hpc' \in {"notify", "done"}
    /\ UNCHANGED <<ui, ticks, notes>>

\* C6: a request answered 400 makes no store call, leaves the store and the
\* dirty flag as they were, and ends without notifying.
C6_RejectedNoEffect ==
    [][(PostStep /\ hlog'[1].code = 400) =>
            /\ sessions' = sessions
            /\ dirty' = dirty
            /\ hplan'.op = "none"
            /\ hpc' = "done" /\ hnotified' = 0]_vars

\* A request rejected for its identifier while a session is stored.
C6_Witness ==
    /\ hpc = "done" /\ Answer.code = 400
    /\ Answer.error = INVALID_IDENTIFIER
    /\ sessions # EmptyStore

\* C7: parse first, then the non-empty check of id and title after trimming,
\* then the digit check of the id; the first failing step decides.
C7_ValidationOrder ==
    Answered =>
        /\ ~Parsed => Answer.error \notin {MISSING_FIELD, INVALID_IDENTIFIER}
        /\ (Parsed /\ (ReqId = <<>> \/ ReqTitle = <<>>)) =>
                (Answer.code = 400 /\ Answer.error = MISSING_FIELD)
        /\ Answer.error = INVALID_IDENTIFIER =>
                /\ Parsed /\ ReqId # <<>> /\ ReqTitle # <<>>
                /\ ~DecimalOnly(ReqId)
                /\ Answer.code = 400
        /\ (Parsed /\ ReqId # <<>> /\ ReqTitle # <<>> /\ ~isdigit(ReqId)) =>
                Answer.error = INVALID_IDENTIFIER

\* An empty title with a non-numeric id, reported as a missing field.
C7_Witness ==
    /\ Answered /\ Parsed
    /\ ReqTitle = <<>> /\ ReqId = <<"7", "a">>
    /\ Answer.error = MISSING_FIELD

\* C8: a validated request whose title is "terminate" in any case removes
\* the id and is answered 200 "removed"; any other upserts the trimmed id,
\* title and message and is answered 200 "registered"; both echo the id.
C8_Dispatch ==
    (Answered /\ Validated) =>
        /\ Answer.code = 200 /\ Answer.window_id = ReqId
        /\ Answer.sent => Len(hlog) = 1
        /\ IF lower(ReqTitle) = TERMINATE
              THEN /\ hplan.op = "remove" /\ hplan.window_id = ReqId
                   /\ ReqId \notin DOMAIN sessions
                   /\ Answer.status = "removed"
              ELSE /\ hplan.op = "upsert"
                   /\ ReqId \in DOMAIN sessions
                   /\ sessions[ReqId] = Session(ReqTitle, ReqMsg, TRUE)
                   /\ hreq.event_msg = JAbsent => sessions[ReqId].event_msg = <<>>
                   /\ Answer.status = "registered"

\* A terminate in mixed case for an id that is not stored.
C8_Witness ==
    /\ Answered /\ Validated /\ Answer.sent
    /\ ReqTitle # TERMINATE /\ hplan.op = "remove"
    /\ Answer.status = "removed"
    /\ sessions = EmptyStore /\ fresh = {}

\* ------------------------------------------------------------------------
\* The unseen flag
\* ------------------------------------------------------------------------
\* C9 as stated: after mark_all_seen(), has_unseen() is false iff no upsert
\* was made since.
C9_Original ==
    sinceMark # "never" => (~has_unseen(sessions) <=> sinceMark = "none")

\* C9: after mark_all_seen(), has_unseen() is false iff no session upserted
\* since is still stored.
C9_UnseenIffFreshStored ==
    sinceMark # "never" =>
        /\ ~has_unseen(sessions) <=> fresh = {}
        /\ fresh \subseteq DOMAIN sessions
        /\ sinceMark = "none" => ~has_unseen(sessions)

\* A session upserted after mark_all_seen() and removed again, beside a
\* session that stays seen.
C9_Witness ==
    /\ sinceMark = "some" /\ fresh = {}
    /\ sessions # EmptyStore /\ ~has_unseen(sessions)

\* The main thread runs mark_all_seen() in this step.
MarkStep == mpc = "mark" /\ mpc' = "get_all"

\* The server thread runs upsert in this step.
UpsertStep == PostStep /\ hplan'.op = "upsert"

Kept == DOMAIN sessions \cap DOMAIN sessions'

\* C10: a stored session's flag goes from true to false only in a
\* mark_all_seen() step, which clears every stored session's flag; upsert
\* leaves its session unseen; no other step changes a stored session's flag.
C10_OnlyMarkAllSeenClears ==
    [][/\ \A k \in Kept :
            (sessions[k].unseen /\ ~sessions'[k].unseen) => MarkStep
       /\ MarkStep =>
            /\ DOMAIN sessions' = DOMAIN sessions
            /\ \A k \in DOMAIN sessions' : ~sessions'[k].unseen
       /\ UpsertStep =>
            /\ sessions'[hplan'.window_id].unseen
            /\ \A k \in Kept \ {hplan'.window_id} :
                    sessions'[k].unseen = sessions[k].unseen
       /\ (~MarkStep /\ ~UpsertStep) =>
            \A k \in Kept : sessions'[k].unseen = sessions[k].unseen]_vars

\* mark_all_seen() has just cleared the flags of two stored sessions.
C10_Witness ==
    /\ mpc = "get_all" /\ morigin \in {"click", "open"}
    /\ count(sessions) = 2 /\ ~has_unseen(sessions)

\* ------------------------------------------------------------------------
\* The store called from several threads
\* ------------------------------------------------------------------------
\* Thread t runs the body of upsert / of remove in this step.
UpsertBy(t) == tpc[t] = "body" /\ tcall[t].op = "upsert" /\ tpc'[t] # "body"
RemoveBy(t) == tpc[t] = "body" /\ tcall[t].op = "remove" /\ tpc'[t] # "body"

\* Thread t's method body is complete and it still holds the lock.
Completed(t, op) == tpc[t] = "release" /\ tcall[t].op = op

\* C11: upsert(id, ...) changes only the entry for id; every other stored
\* session keeps its title, message and unseen flag, so a session marked seen
\* stays seen when another id is upserted.
C11_UpsertFrame ==
    [][\A t \in Threads :
        UpsertBy(t) =>
            /\ DOMAIN sessions' = DOMAIN sessions \cup {tcall[t].window_id}
            /\ \A k \in DOMAIN sessions \ {tcall[t].window_id} :
                    sessions'[k] = sessions[k]]_vars

\* Session 7 has just been upserted beside session 12, which stays seen.
C11_Witness ==
    /\ Completed(1, "upsert") /\ tcall[1].window_id = <<"7">>
    /\ <<"1", "2">> \in DOMAIN tpre[1] /\ ~tpre[1][<<"1", "2">>].unseen
    /\ ~sessions[<<"1", "2">>].unseen /\ sessions[<<"7">>].unseen

\* Every upsert_many thread has left its loop and its last call.
AllDone == \A t \in Threads : todo[t] = UpsertCount /\ tpc[t] \in {"idle", "ret"}

\* The calls of its loop thread t has completed.
DoneCalls(t) ==
    {ManyCall(t, i) : i \in 0..(todo[t] - 1 - IF tpc[t] \in {"acquire", "body"} THEN 1 ELSE 0)}

\* C12: concurrent upserts of N distinct ids from several threads raise no
\* error, every completed call's id is stored with the title and message that
\* call passed, and at the end count() = N.
C12_ConcurrentUpserts ==
    /\ \A t \in Threads : tpc[t] # "error"
    /\ \A t \in Threads : \A c \in DoneCalls(t) :
            /\ c.window_id \in DOMAIN sessions
            /\ sessions[c.window_id] = Session(c.event_title, c.event_msg, TRUE)
    /\ AllDone => count(sessions) = Cardinality(Threads) * UpsertCount

\* The three threads have ended and all their ids are stored.
C12_Witness ==
    AllDone /\ count(sessions) = Cardinality(Threads) * UpsertCount

\* The holder of a snapshot writes to it in this step.
Tamper(t) == tpc[t] = "ret" /\ ~tres[t].touched /\ tres'[t].touched

\* C13: a write to the snapshot get_all() returned (a field of an entry, an
\* entry added or deleted) leaves the store as it was, so no later get_all(),
\* has_unseen() or count() shows it; and no other step changes a snapshot its
\* holder keeps.
C13_SnapshotIndependent ==
    [][\A t \in Threads :
        /\ Tamper(t) => sessions' = sessions
        /\ (tpc[t] = "ret" /\ tpc'[t] = "ret" /\ ~Tamper(t)) =>
                View(t)' = View(t)]_vars

\* A caller has overwritten the message in its snapshot of a session that is
\* still stored with the message it was registered with.
C13_Witness ==
    /\ tpc[3] = "ret" /\ tres[3].touched
    /\ <<"7">> \in DOMAIN tres[3].snap /\ <<"7">> \in DOMAIN sessions
    /\ tres[3].snap[<<"7">>].event_msg = MODIFIED
    /\ sessions[<<"7">>].event_msg = OK

\* C14: remove(id) of an id that is not stored raises nothing and leaves the
\* store as it is, also when it races with upserts of other ids.
C14_RemoveAbsent ==
    [][\A t \in Threads :
        (RemoveBy(t) /\ tcall[t].window_id \notin DOMAIN sessions) =>
            /\ sessions' = sessions
            /\ tpc'[t] = "release"]_vars

\* A remove of the absent session 12 has completed while another thread is
\* waiting to upsert session 7 into a store that holds it already.
C14_Witness ==
    /\ Completed(2, "remove") /\ tcall[2].window_id \notin DOMAIN tpre[2]
    /\ tpc[1] = "acquire" /\ tcall[1].op = "upsert"
    /\ tcall[1].window_id # tcall[2].window_id
    /\ count(sessions) = 1

\* C15: an upsert of an id already stored leaves count() as it is and puts
\* its title and message in place of the old ones; a get_all() shows, for
\* each id, the contents of the last completed upsert.
C15_LastWriteWins ==
    /\ [][\A t \in Threads :
            (UpsertBy(t) /\ tcall[t].window_id \in DOMAIN sessions) =>
                /\ count(sessions') = count(sessions)
                /\ sessions'[tcall[t].window_id].event_title = tcall[t].event_title
                /\ sessions'[tcall[t].window_id].event_msg = tcall[t].event_msg]_vars
    /\ [](\A t \in Threads :
            Completed(t, "get_all") =>
                \A k \in DOMAIN tprelast[t] :
                    /\ k \in DOMAIN tres[t].snap
                    /\ tres[t].snap[k].event_title = tprelast[t][k].event_title
                    /\ tres[t].snap[k].event_msg = tprelast[t][k].event_msg)

\* Session 7, stored as "done", has been upserted as "build", "ok".
C15_Witness ==
    /\ Completed(1, "upsert") /\ tcall[1].window_id = <<"7">>
    /\ <<"7">> \in DOMAIN tpre[1] /\ tpre[1][<<"7">>].event_title = DONE
    /\ sessions[<<"7">>].event_title = BUILD
    /\ count(sessions) = 2

\* C16: a get_all() that follows an upsert of id, with no remove or
\* mark_all_seen() of it between, holds an entry for id that is unseen and
\* has the title and message the upsert passed.
C16_UpsertThenGetAll ==
    \A t \in Threads :
        Completed(t, "get_all") =>
            \A k \in DOMAIN tprelast[t] :
                ~tprelast[t][k].marked =>
                    /\ k \in DOMAIN tres[t].snap
                    /\ tres[t].snap[k] =
                        Session(tprelast[t][k].event_title,
                                tprelast[t][k].event_msg, TRUE)

\* A snapshot taken after session 7 was upserted again following a
\* mark_all_seen() that left session 12 seen.
C16_Witness ==
    /\ Completed(3, "get_all")
    /\ DOMAIN tprelast[3] = {<<"7">>, <<"1", "2">>}
    /\ ~tprelast[3][<<"7">>].marked /\ tprelast[3][<<"1", "2">>].marked
    /\ tres[3].snap[<<"7">>].unseen /\ ~tres[3].snap[<<"1", "2">>].unseen

\* The (title, message) pairs the upsert calls for id pass.
UpsertContents(id) ==
    {<<c.event_title, c.event_msg>> :
        c \in {x \in UNION {RoleCalls[t] : t \in Threads} :
                    x.op = "upsert" /\ x.window_id = id}}

\* Every entry holds the title and message of one single upsert call.
Whole(S) ==
    \A k \in DOMAIN S : <<S[k].event_title, S[k].event_msg>> \in UpsertContents(k)

\* C18: when upserts (and removes) of one id race, the store holds for it no
\* entry or one whose title and message come from the same upsert call, and
\* no get_all() returns an entry mixing two calls.
C18_NoPartialEntry ==
    /\ Whole(sessions)
    /\ \A t \in Threads :
        (tcall[t].op = "get_all" /\ ~tres[t].touched) => Whole(tres[t].snap)

\* An upsert of session 7 has replaced what another thread's upsert stored,
\* while that thread waits to upsert it again.
C18_Witness ==
    /\ Completed(1, "upsert") /\ tcall[1].window_id = <<"7">>
    /\ <<"7">> \in DOMAIN tpre[1] /\ tpre[1][<<"7">>].event_title = DONE
    /\ tpc[2] = "acquire" /\ tcall[2].op = "upsert"
    /\ sessions[<<"7">>] = Session(BUILD, OK, TRUE)

\* The store a call leaves when it runs alone on S.
Effect(c, S) ==
    CASE c.op = "upsert" -> upsert(S, c.window_id, c.event_title, c.event_msg)
      [] c.op = "remove" -> remove(S, c.window_id)
      [] c.op = "mark_all_seen" -> mark_all_seen(S)
      [] OTHER -> S

Uniform(S) == \A j, k \in DOMAIN S : S[j].unseen = S[k].unseen

\* C19: every store call takes effect as one step: no two threads are inside
\* a method body together, a completed call has left the store it found
\* changed by exactly its own effect, and what get_all(), has_unseen() and
\* count() return is their value on the store they found; a get_all() that
\* found every session unseen returns none of them seen; no call raises.
C19_Atomic ==
    /\ \A t, u \in Threads :
        (t # u /\ tpc[t] \in {"body", "release"}) => tpc[u] \notin {"body", "release"}
    /\ \A t \in Threads :
        /\ tpc[t] # "error"
        /\ tpc[t] = "release" =>
            /\ sessions = Effect(tcall[t], tpre[t])
            /\ tcall[t].op = "get_all" => tres[t].snap = get_all(tpre[t])
            /\ tcall[t].op = "has_unseen" => tres[t].flag = has_unseen(tpre[t])
            /\ tcall[t].op = "count" => tres[t].n = count(tpre[t])
        /\ (tpc[t] \in {"body", "release"} /\ tcall[t].op = "get_all"
                /\ \A k \in DOMAIN tpre[t] : tpre[t][k].unseen) =>
            \A k \in DOMAIN tres[t].snap : tres[t].snap[k].unseen

\* A get_all() of two unseen sessions has completed while another thread
\* waits for the lock to run mark_all_seen().
C19_Witness ==
    /\ Completed(3, "get_all") /\ count(tres[3].snap) = 2
    /\ \A k \in DOMAIN tres[3].snap : tres[3].snap[k].unseen
    /\ tpc[2] = "acquire" /\ tcall[2].op = "mark_all_seen"

\* ------------------------------------------------------------------------
\* The click handler and the reconciliation of the menu
\* ------------------------------------------------------------------------
\* C17: handler() calls focus_terminal_window with the id its item was made
\* for, then mark_all_seen(), then _rebuild_menu() without waiting for a tick
\* or the dirty flag; a timeout or exception of the activation call changes
\* nothing in the store and the handler goes on to both in every case.
C17_ClickSequence ==
    /\ [][/\ (mpc = "idle" /\ mpc' = "focus") =>
                (mwid' \in DOMAIN menu /\ morigin' = "click")
          /\ (mpc = "focus" /\ mpc' # "focus") =>
                /\ mpc' = "mark" /\ activation' \in ActivationOutcomes
                /\ sessions' = sessions
                /\ mwid' = mwid /\ morigin' = "click"
          /\ (morigin = "click" /\ mpc = "mark" /\ mpc' # "mark") =>
                /\ mpc' = "get_all" /\ sessions' = mark_all_seen(sessions)
                /\ morigin' = "click"
          /\ (morigin = "click" /\ mpc = "get_all" /\ mpc' # "get_all") =>
                /\ mpc' = "render" /\ snap' = get_all(sessions)
                /\ morigin' = "click"
          /\ (morigin = "click" /\ mpc = "render" /\ mpc' # "render") =>
                /\ mpc' = "idle"
                /\ menu' = [wid \in DOMAIN snap |-> Label(snap[wid])]]_vars
    /\ (mpc = "focus") ~> (mpc = "render" /\ morigin = "click")

\* After an activation call that timed out the handler has marked the stored
\* session seen and is at its rebuild, with the dirty flag clear.
C17_Witness ==
    /\ mpc = "get_all" /\ morigin = "click" /\ activation = "timeout"
    /\ ~dirty /\ sessions # EmptyStore /\ ~has_unseen(sessions)

\* The menu shows the store: the session list and the unseen indicator.
Rendered ==
    /\ DOMAIN menu = DOMAIN sessions
    /\ \A k \in DOMAIN menu : menu[k] = Label(sessions[k])
    /\ (title[1] = ICON_UNSEEN) <=> has_unseen(sessions)

\* A store mutation has landed between the get_all() and the has_unseen() of
\* the rebuild in progress.
Torn == mpc = "render" /\ snap # get_all(sessions)

\* C20: a mutation that lands between the two reads of a rebuild is followed
\* by a tick's rebuild that reads the store after it, and once requests stop
\* the menu comes to show the store and keeps showing it.
C20_TornReadReconciled ==
    /\ Torn ~> (mpc = "get_all" /\ morigin = "tick")
    /\ (<>[][~PostStep]_vars) => <>[]Rendered

\* ------------------------------------------------------------------------
\* C21
\* ------------------------------------------------------------------------
\* The step of _poll_for_updates that runs self._dirty.clear() (line 180).
ClearStep == mpc = "clear" /\ morigin = "tick" /\ mpc' = "get_all"

\* A rebuild begins on behalf of a tick (line 181 enters _rebuild_menu).
TickRebuildStep == mpc = "get_all" /\ morigin = "tick" /\ mpc' = "render"

\* C21: the flag goes from set to clear only in the tick's clear step, never
\* in a request, a selection handler or a menu-open rebuild; a tick that has
\* cleared the flag goes on to its rebuild and ends only after exactly one
\* rebuild; and the rebuilds started by ticks so far never outnumber the
\* schedule_refresh calls made so far.
C21_ClearOnlyInTick ==
    /\ [][(dirty /\ ~dirty') => ClearStep]_vars
    /\ [][ClearStep => (dirty /\ ~dirty' /\ tickRebuilds' = 0)]_vars
    /\ [][(morigin = "tick" /\ mpc = "get_all" /\ mpc' # mpc)
             => (TickRebuildStep /\ tickRebuilds' = 1)]_vars
    /\ [][(morigin = "tick" /\ mpc = "render" /\ mpc' # mpc)
             => (mpc' = "idle" /\ tickRebuilds = 1)]_vars
    /\ [](tally.rebuilt <= tally.notified)

\* Two ticks have each cleared the flag and started a rebuild, after two
\* notifications of which the second came between the first tick's clear
\* and its rebuild.
C21_Witness ==
    /\ mpc = "render" /\ morigin = "tick" /\ tickRebuilds = 1
    /\ ~dirty /\ tally.on /\ tally.rebuilt = 2 /\ tally.notified = 2

\* ------------------------------------------------------------------------
\* C22
\* ------------------------------------------------------------------------
\* An execution of the body of _rebuild_menu is in progress.
Rebuilding == refresh_lock # "none"

\* A rebuild enters the body (lines 185-186) and leaves it (line 226).
EnterStep == ~Rebuilding /\ Rebuilding'
LeaveStep == Rebuilding /\ ~Rebuilding'

\* C22: the body of _rebuild_menu is entered only when no rebuild is in
\* progress, by the trigger (tick, selection or menu-open hook) the main
\* thread is serving; while a rebuild is in progress the main thread serves
\* no other trigger and starts no other rebuild, and its local snapshot, the
\* title and the menu change only in the step that finishes it; the store is
\* read into a snapshot only on entering and the menu is written only on
\* leaving, so the reads and writes of two rebuilds never interleave.
C22_OneRebuildAtATime ==
    /\ [](Rebuilding <=> mpc = "render")
    /\ [](Rebuilding => refresh_lock = morigin /\ morigin \in {"tick", "click", "open"})
    /\ [][EnterStep => (mpc = "get_all" /\ refresh_lock' = morigin)]_vars
    /\ [][Rebuilding => \/ LeaveStep /\ mpc' = "idle"
                       \/ UNCHANGED ui]_vars
    /\ [][snap' # snap => (EnterStep \/ LeaveStep)]_vars
    /\ [][(menu' # menu \/ title' # title) => LeaveStep]_vars

\* A rebuild started by a selection is in progress while the flag is set and
\* the server thread is between its response and its notification: the tick
\* that is due and the request both go on without a second rebuild starting.
C22_Witness ==
    /\ refresh_lock = "click" /\ mpc = "render" /\ dirty /\ hpc = "notify"

\* ------------------------------------------------------------------------
\* C23
\* ------------------------------------------------------------------------
\* _respond writes the answer of the request (lines 98, 103, 108, 111, 118, 120).
RespondStep == hpc \in {"respond", "store"} /\ hpc' \in {"notify", "done"}

\* The title and the menu are written (lines 191-226).
MenuWriteStep == mpc = "checking" /\ mpc' = "idle"

\* `with self._refresh_lock` is entered (line 185).
RefreshAcquireStep == refresh_lock = "none" /\ refresh_lock' # "none"

\* The main thread has reached line 185.
AtRefreshLock == mpc = "get_all" \/ (mpc = "marking" /\ tpc[MAIN] = "idle")

\* Thread t is waiting for the store's lock.
WaitsForStore(t) == tpc[t] = "acquire" /\ lock # 0

\* C23: the store's lock is held only by a thread inside the body of one
\* store method, which the server thread runs only between validating a
\* request and answering it and the main thread only inside mark_all_seen,
\* get_all or has_unseen; it is not held in the step that writes the HTTP
\* response, while the activation call runs, in the step that writes the
\* menu, or in the step that takes the refresh lock.  The refresh lock is
\* free whenever the main thread reaches it, so a thread only ever waits for
\* the store's lock, and then its holder is another thread that is inside a
\* method body and waits for nothing.
C23_LockDiscipline ==
    /\ [](lock \in {0, SERVER, MAIN})
    /\ [](\A t \in {SERVER, MAIN} : lock = t => tpc[t] \in {"body", "release"})
    /\ [](lock = SERVER => hpc = "store")
    /\ [](lock = MAIN => mpc \in {"marking", "reading", "checking"})
    /\ [](hpc \in {"respond", "notify"} => tpc[SERVER] = "idle")
    /\ [](mpc = "focus" => lock # MAIN /\ tpc[MAIN] = "idle")
    /\ [][RespondStep => (lock # SERVER /\ lock' # SERVER)]_vars
    /\ [][MenuWriteStep => (lock # MAIN /\ lock' # MAIN)]_vars
    /\ [][RefreshAcquireStep => (lock # MAIN /\ lock' # MAIN)]_vars
    /\ [](AtRefreshLock => refresh_lock = "none")
    /\ [](\A t \in {SERVER, MAIN} :
            WaitsForStore(t) => /\ lock # t
                                /\ tpc[lock] \in {"body", "release"})

\* The main thread, inside a rebuild and so holding the refresh lock, waits
\* for the store's lock while the server thread holds it inside upsert.
C23_Witness ==
    /\ refresh_lock = "tick" /\ mpc = "checking" /\ WaitsForStore(MAIN)
    /\ lock = SERVER /\ tcall[SERVER].op = "upsert" /\ tpc[SERVER] = "release"

\* ------------------------------------------------------------------------
\* C24
\* ------------------------------------------------------------------------
\* C24: with the endpoint as the only writer of the store, every stored
\* session has a non-empty id and a title that is non-empty, has no leading or
\* trailing whitespace and is not "terminate" in any letter case.
C24_StoredSessionsWellFormed ==
    \A id \in DOMAIN sessions :
        /\ id # <<>>
        /\ sessions[id].event_title # <<>>
        /\ strip(sessions[id].event_title) = sessions[id].event_title
        /\ lower(sessions[id].event_title) # TERMINATE

\* A request whose title came padded with whitespace has been stored trimmed,
\* next to another session, after a terminate request removed a third.
C24_Witness ==
    /\ hpc = "done" /\ hplan.op = "upsert"
    /\ hreq.event_title = JStr(<<" ">> \o DONE \o <<" ">>)
    /\ hplan.window_id \in DOMAIN sessions
    /\ sessions[hplan.window_id].event_title = DONE
    /\ Cardinality(DOMAIN sessions) = 2
====
